---- MODULE Spec2Model ----
(***************************************************************************)
(* A model of the network-condition simulator of REST-vs-MCP, of the       *)
(* client operations that are timed around it, of the                      *)
(* network-instability scenario loop that counts their outcomes, of the    *)
(* MCP client's readers of the event stream, of the MCP server's sessions  *)
(* and their queues, and of the sizes the multi-turn chat scenario reports.*)
(*                                                                         *)
(* Units.  Time is an integer number of microseconds: the code sleeps for  *)
(* latency_ms / 1000.0 seconds, i.e. latency_ms * 1000 microseconds, and   *)
(* for bits / bits_per_second seconds.  A probability is an integer number *)
(* of steps of 1/RandResolution: packet_loss_rate = RandResolution is the  *)
(* rate 1.0 and a draw of random.random(), which lies in [0, 1), is one of *)
(* 0 .. RandResolution - 1.                                                *)
(***************************************************************************)
EXTENDS Integers, Sequences, FiniteSets, TLC

\* ------------------------------------------------------------------ bounds

\* Resolution of probabilities and of the uniform draw.
RandResolution == 4
\* Simulator calls followed in the simulator specification.
MaxCalls == 2
\* Lines of one event stream followed.
MaxLines == 4
\* GET /sse requests followed.
MaxConns == 2
\* Later readings the server's clock goes through.
MaxClock == 1
\* generate_task requests followed.
MaxTasks == 1
\* Ticker updates followed on one stream.
MaxTickerUpdates == 1

\* Iterations of a benchmark loop (the programs run 10 to 100).
MaxRounds == 2

\* Background tasks the REST server is asked for.
MaxJobs == 2

\* Polls of run_task_polling that are followed.
MaxPolls == 3

\* Concurrent call_tool_async calls on one client (bench_concurrency: 50).
MaxAgents == 3

\* ------------------------------------------------------- program constants

\* asyncio.sleep takes seconds; the model counts microseconds.
MicrosPerSecond == 1000000
\* latency_ms / 1000.0 seconds is latency_ms * 1000 microseconds.
MicrosPerMilli == 1000
\* bits = bytes_count * 8
BitsPerByte == 8
\* bits_per_second = bandwidth_mbps * 1_000_000
BitsPerMegabit == 1000000

\* ------------------------------------------------------------ input values

\* latency_ms settings (milliseconds); 50 is bench_network_instability's.
LatencyChoices == {0, 50}
\* packet_loss_rate settings: 0, one step of the resolution, 1.
LossChoices == {0, 1, RandResolution}
\* bandwidth_mbps settings; 0 is the constructor's default.
BandwidthChoices == {0, 8}
\* bytes_count arguments of simulate_transfer (bits * 1000000 stays below 2^31).
ByteCounts == {0, 100, 200}
\* Values random.random() may return, as steps of 1/RandResolution.
Draws == 0 .. (RandResolution - 1)

Conditions == [latency_ms : LatencyChoices,
               packet_loss_rate : LossChoices,
               bandwidth_mbps : BandwidthChoices]

\* Time the mocked endpoint takes to answer one HTTP request (microseconds).
ServerTimes == {1000}
\* How an HTTP request ends: a 2xx answer, an error status, no connection.
HttpOutcomes == {"ok", "error_status", "connect_error"}

NoCall == [op |-> "none"]
\* No latency reported (the operation raised, or reports none).
NoLatency == -1
\* The start timestamp not yet taken.
NoTime == -1

VARIABLES
  sim,      \* the NetworkSimulator's three fields
  now,      \* the clock, in microseconds (time.perf_counter has no fixed
            \* origin: a client operation reads it from its own call on)
  calls,    \* simulator calls made so far (simulator specification)
  last,     \* the last simulator call: its arguments, conditions and result
  ex,       \* the client operation in flight or just ended
  lp,       \* bench_network_instability's loop: its locals and its position
  results,  \* bench_network_instability's results list
  st,       \* the client's consumption of one event stream
  srv,      \* the MCP server: its sessions, their queues and its clock
  chat,     \* bench_multi_turn_chat: the history and the sizes reported
  batch,    \* a benchmark program: its position and the records it collected
  rt,       \* the client's run_task_with_notifications call
  rest,     \* the REST server's task store and the client polling it
  mc        \* one McpClient's request counter and the calls running on it

vars == <<sim, now, calls, last, ex, lp, results, st, srv, chat, batch, rt, rest, mc>>

\* ------------------------------------------------------- NetworkSimulator

\* A bug: the draw compared the wrong way round.
LossDraw_inverted(rate, r) == rate > 0 /\ r > rate

\* A bug: the rate check dropped and the comparison made inclusive.
LossDraw_unguarded(rate, r) == r <= rate

\* self.packet_loss_rate > 0 and random.random() < self.packet_loss_rate
LossDraw(rate, r) == rate > 0 /\ r < rate

\* A bug: the drop raised at once, without the sleep.
DropSleep_instant(latency_ms) == 0

\* await asyncio.sleep(self.latency_ms / 1000.0) on the drop path
DropSleep(latency_ms) == latency_ms * MicrosPerMilli

\* if self.latency_ms > 0: await asyncio.sleep(self.latency_ms / 1000.0)
LinkSleep(latency_ms) == IF latency_ms > 0 THEN latency_ms * MicrosPerMilli ELSE 0

\* simulate_network under conditions c with draw r: how it ends and how long
\* it suspended the caller.
simulate_network(c, r) ==
  IF LossDraw(c.packet_loss_rate, r)
    THEN [outcome |-> "dropped", delay |-> DropSleep(c.latency_ms)]
    ELSE [outcome |-> "ok", delay |-> LinkSleep(c.latency_ms)]

\* A bug: the bandwidth guard admits 0.
BandwidthGate_inclusive(bandwidth_mbps) == bandwidth_mbps >= 0

\* if self.bandwidth_mbps > 0:
BandwidthGate(bandwidth_mbps) == bandwidth_mbps > 0

\* A bug: bandwidth taken as bits per second, the 1_000_000 left out.
transfer_time_unscaled(bandwidth_mbps, bytes_count) ==
  LET bits == bytes_count * BitsPerByte
  IN  IF bandwidth_mbps = 0
        THEN [error |-> TRUE, micros |-> 0]
        ELSE [error |-> FALSE, micros |-> (bits * MicrosPerSecond) \div bandwidth_mbps]

\* bits = bytes_count * 8; bits_per_second = bandwidth_mbps * 1_000_000;
\* transfer_time = bits / bits_per_second (seconds), here in whole microseconds.
\* Python's division raises ZeroDivisionError on a zero divisor.
transfer_time(bandwidth_mbps, bytes_count) ==
  LET bits == bytes_count * BitsPerByte
      bits_per_second == bandwidth_mbps * BitsPerMegabit
  IN  IF bits_per_second = 0
        THEN [error |-> TRUE, micros |-> 0]
        ELSE [error |-> FALSE, micros |-> (bits * MicrosPerSecond) \div bits_per_second]

\* A bug: the transfer not passed through simulate_network first.
simulate_transfer_ungated(c, bytes_count, r) ==
  LET tt == transfer_time(c.bandwidth_mbps, bytes_count)
  IN  IF ~BandwidthGate(c.bandwidth_mbps) THEN [outcome |-> "ok", delay |-> 0]
      ELSE IF tt.error THEN [outcome |-> "zero_division", delay |-> 0]
      ELSE [outcome |-> "ok", delay |-> tt.micros]

\* simulate_transfer(bytes_count) under conditions c with draw r.
simulate_transfer(c, bytes_count, r) ==
  LET net == simulate_network(c, r)
      tt  == transfer_time(c.bandwidth_mbps, bytes_count)
  IN  IF net.outcome = "dropped" THEN net
      ELSE IF ~BandwidthGate(c.bandwidth_mbps) THEN net
      ELSE IF tt.error THEN [outcome |-> "zero_division", delay |-> net.delay]
      ELSE [outcome |-> "ok", delay |-> net.delay + tt.micros]

\* No client operation called yet.
NoExchange ==
  [op |-> "none", pc |-> 0, status |-> "idle", exc |-> "none",
   start |-> NoTime, latency |-> NoLatency,
   http |-> 0, simcalls |-> 0, injected |-> 0]

\* The scenario loop not entered.  iter counts the iterations over; started,
\* drops and others are not the code's: they count the exchanges begun, the
\* iterations the simulator dropped and those that failed otherwise.
NoLoop ==
  [pc |-> "off", protocol |-> "none", iter |-> 0, started |-> 0,
   successes |-> 0, total_latency |-> 0, start |-> NoTime,
   drops |-> 0, others |-> 0]

\* No event stream opened yet.  lines, times and ended are not the code's:
\* they keep the kinds of the lines read, the times they were read at and
\* what ended the consumption.
NoStream ==
  [fn |-> "none", pc |-> "idle", open |-> FALSE, form |-> "none",
   duration |-> 0, start |-> NoTime, finish |-> NoTime,
   lines |-> <<>>, times |-> <<>>, events |-> <<>>,
   session_id |-> "none", result |-> "none", exc |-> "none",
   ended |-> "none", live |-> FALSE, task |-> "none"]

\* No queue: the id is not in sessions.
NoConn == 0

\* The session ids the clock can give.
SessionIds == 0 .. MaxClock

\* The server before any connection: sessions = {}.  sessions maps an id to
\* the connection whose queue it holds, 0 for an id it does not hold; tasks,
\* refused and keyerrors are not the code's: the run_mcp_task coroutines, the
\* generate_task requests refused and the KeyErrors raised by del.
NoServer ==
  [clock |-> 0, conns |-> <<>>, sessions |-> [sid \in SessionIds |-> NoConn],
   tasks |-> <<>>, refused |-> 0, keyerrors |-> 0]

\* The chat scenario not entered: history = [].  history keeps, of each
\* entry, the role and the length of the content; bytes and msgs are the
\* bytes_sent reported and the lengths of the messages sent, turn by turn.
NoChat ==
  [protocol |-> "none", pc |-> "off", i |-> 0, history |-> <<>>,
   bytes |-> <<>>, msgs |-> <<>>]

\* No benchmark program started.
NoBatch ==
  [pc |-> "off", program |-> "none", s |-> 0, k |-> 0, results |-> <<>>,
   all_results |-> <<>>, csv |-> <<>>, exc |-> "none", ran |-> {}]

\* run_task_with_notifications not called.
NoPush ==
  [pc |-> "idle", conn |-> NoConn, read |-> 0, session_id |-> NoTime,
   task_started |-> FALSE, event_count |-> 0, response |-> "none",
   seen |-> "none", exc |-> "none"]

\* The REST server's task store, empty: tasks = {}.
NoRest ==
  [clock |-> 0,
   tasks |-> [id \in 0 .. MaxClock |->
                [status |-> "absent", progress |-> 0, result |-> "None"]],
   jobs |-> <<>>, pc |-> "idle", task_id |-> NoTime, polls |-> 0]

\* The McpClient as constructed: self.request_id = 0.
NoCalls == [request_id |-> 0, calls |-> <<>>, built |-> <<>>]

\* ------------------------------------------- the simulator specification

InitSim ==
  /\ sim \in Conditions
  /\ now = 0
  /\ calls = 0
  /\ last = NoCall
  /\ ex = NoExchange
  /\ lp = NoLoop
  /\ results = <<>>
  /\ st = NoStream
  /\ srv = NoServer
  /\ chat = NoChat
  /\ batch = NoBatch
  /\ rt = NoPush
  /\ rest = NoRest
  /\ mc = NoCalls

\* One call of simulate_network.
SimulateNetwork ==
  /\ calls < MaxCalls
  /\ \E r \in Draws :
       LET res == simulate_network(sim, r)
       IN  /\ now' = now + res.delay
           /\ last' = [op |-> "simulate_network", cond |-> sim, draw |-> r,
                       bytes_count |-> 0, start |-> now,
                       outcome |-> res.outcome, delay |-> res.delay]
  /\ calls' = calls + 1
  /\ UNCHANGED <<sim, ex, lp, results, st, srv, chat, batch, rt, rest, mc>>

\* One call of simulate_transfer(bytes_count).
SimulateTransfer ==
  /\ calls < MaxCalls
  /\ \E r \in Draws, n \in ByteCounts :
       LET res == simulate_transfer(sim, n, r)
       IN  /\ now' = now + res.delay
           /\ last' = [op |-> "simulate_transfer", cond |-> sim, draw |-> r,
                       bytes_count |-> n, start |-> now,
                       outcome |-> res.outcome, delay |-> res.delay]
  /\ calls' = calls + 1
  /\ UNCHANGED <<sim, ex, lp, results, st, srv, chat, batch, rt, rest, mc>>

\* set_conditions(latency_ms, packet_loss_rate, bandwidth_mbps)
SetConditions ==
  /\ \E c \in Conditions : c # sim /\ sim' = c
  /\ UNCHANGED <<now, calls, last, ex, lp, results, st, srv, chat, batch, rt, rest, mc>>

NextSim == SimulateNetwork \/ SimulateTransfer \/ SetConditions

SpecSim == InitSim /\ [][NextSim]_vars

\* ------------------------------------------------ the client operations

(***************************************************************************)
(* A client operation is the sequence of its awaits and timestamps, in the *)
(* order of its source lines:                                              *)
(*   "start"             start = time.perf_counter()                       *)
(*   "simulate_network"  await self.network_sim.simulate_network()         *)
(*   "simulate_transfer" await self.network_sim.simulate_transfer(n)       *)
(*   "http_checked"      the HTTP request, then response.raise_for_status()*)
(*   "http_unchecked"    the HTTP request alone                            *)
(*   "stop"              end = time.perf_counter(); return (end - start)   *)
(* An operation whose steps run out returns without a latency.             *)
(***************************************************************************)

\* A bug: the request sent before the simulator is asked.
ping_async_requestFirst == <<"start", "http_checked", "simulate_network", "stop">>

\* RestClient.ping_async
ping_async == <<"simulate_network", "start", "http_checked", "stop">>

\* RestClient.echo_async
echo_async == <<"simulate_network", "start", "http_unchecked", "stop">>

\* McpClient._send_request_async (as initialize_async calls it)
send_request_async == <<"simulate_network", "http_checked">>

\* McpClient.call_tool_async, _send_request_async inlined
call_tool_async == <<"start", "simulate_network", "http_checked", "stop">>

\* RestClient.chat_turn
rest_chat_turn ==
  <<"start", "simulate_transfer", "http_checked", "simulate_transfer", "stop">>

\* McpClient.chat_turn, _send_request_async inlined
mcp_chat_turn ==
  <<"start", "simulate_transfer", "simulate_network", "http_checked",
    "simulate_transfer", "stop">>

Operations ==
  {"ping_async", "echo_async", "send_request_async", "call_tool_async",
   "rest_chat_turn", "mcp_chat_turn"}

Program(op) ==
  CASE op = "ping_async" -> ping_async
    [] op = "echo_async" -> echo_async
    [] op = "send_request_async" -> send_request_async
    [] op = "call_tool_async" -> call_tool_async
    [] op = "rest_chat_turn" -> rest_chat_turn
    [] op = "mcp_chat_turn" -> mcp_chat_turn
    [] OTHER -> <<>>

Running == ex.status = "running"

\* The step the operation in flight is at.
AtStep(step) == Running /\ Program(ex.op)[ex.pc] = step

\* The operation moved past its current step: on to the next one, or out of
\* its last line, where it returns what it has.
Advance(e) ==
  IF e.pc < Len(Program(e.op))
    THEN [e EXCEPT !.pc = e.pc + 1]
    ELSE [e EXCEPT !.pc = e.pc + 1, !.status = "returned"]

\* The operation ended by an exception.
Raise(e, exc) == [e EXCEPT !.status = "raised", !.exc = exc]

\* A client operation is called; the clock is read from this call on.
BeginExchange(op) ==
  /\ ex' = [NoExchange EXCEPT !.op = op, !.pc = 1, !.status = "running"]
  /\ now' = 0

\* start = time.perf_counter()
StartTimer ==
  /\ AtStep("start")
  /\ ex' = Advance([ex EXCEPT !.start = now])
  /\ UNCHANGED <<sim, now, calls, last, lp, results, st, srv, chat, batch, rt, rest, mc>>

\* What a simulator call does to the operation: the delay is paid, and a drop
\* raises ConnectionError("Simulated Network Packet Loss") through it.
AfterSimulator(res) ==
  LET e == [ex EXCEPT !.simcalls = ex.simcalls + 1,
                      !.injected = ex.injected + res.delay]
  IN  /\ now' = now + res.delay
      /\ ex' = IF res.outcome = "dropped" THEN Raise(e, "ConnectionError")
               ELSE IF res.outcome = "zero_division" THEN Raise(e, "ZeroDivisionError")
               ELSE Advance(e)

\* await self.network_sim.simulate_network()
AwaitSimulateNetwork ==
  /\ AtStep("simulate_network")
  /\ \E r \in Draws : AfterSimulator(simulate_network(sim, r))
  /\ UNCHANGED <<sim, calls, last, lp, results, st, srv, chat, batch, rt, rest, mc>>

\* await self.network_sim.simulate_transfer(len(json.dumps(...)))
AwaitSimulateTransfer ==
  /\ AtStep("simulate_transfer")
  /\ \E r \in Draws, n \in ByteCounts : AfterSimulator(simulate_transfer(sim, n, r))
  /\ UNCHANGED <<sim, calls, last, lp, results, st, srv, chat, batch, rt, rest, mc>>

\* The HTTP request: await self.async_client.get/post(...), and where the
\* operation has it, response.raise_for_status().
HttpRequest ==
  /\ AtStep("http_checked") \/ AtStep("http_unchecked")
  /\ \E out \in HttpOutcomes, t \in ServerTimes :
       LET e == [ex EXCEPT !.http = ex.http + 1]
       IN  /\ now' = now + t
           /\ ex' = IF out = "connect_error" THEN Raise(e, "httpx.ConnectError")
                    ELSE IF out = "error_status" /\ AtStep("http_checked")
                      THEN Raise(e, "httpx.HTTPStatusError")
                    ELSE Advance(e)
  /\ UNCHANGED <<sim, calls, last, lp, results, st, srv, chat, batch, rt, rest, mc>>

\* end = time.perf_counter(); return (end - start) * 1000
StopTimer ==
  /\ AtStep("stop")
  /\ ex' = Advance([ex EXCEPT !.latency = now - ex.start])
  /\ UNCHANGED <<sim, now, calls, last, lp, results, st, srv, chat, batch, rt, rest, mc>>

\* A caller calls one of the client's operations once the last one has ended.
Call ==
  /\ ~Running
  /\ \E op \in Operations : BeginExchange(op)
  /\ UNCHANGED <<sim, calls, last, lp, results, st, srv, chat, batch, rt, rest, mc>>

\* set_network_conditions between two operations.
SetNetworkConditions ==
  /\ ~Running
  /\ \E c \in Conditions : c # sim /\ sim' = c
  /\ UNCHANGED <<now, calls, last, ex, lp, results, st, srv, chat, batch, rt, rest, mc>>

InitClient ==
  /\ sim \in Conditions
  /\ now = 0
  /\ calls = 0
  /\ last = NoCall
  /\ ex = NoExchange
  /\ lp = NoLoop
  /\ results = <<>>
  /\ st = NoStream
  /\ srv = NoServer
  /\ chat = NoChat
  /\ batch = NoBatch
  /\ rt = NoPush
  /\ rest = NoRest
  /\ mc = NoCalls

ExchangeStep ==
  \/ StartTimer
  \/ AwaitSimulateNetwork
  \/ AwaitSimulateTransfer
  \/ HttpRequest
  \/ StopTimer

NextClient == Call \/ SetNetworkConditions \/ ExchangeStep

SpecClient == InitClient /\ [][NextClient]_vars

\* -------------------------------------------- bench_network_instability

\* attempts = 20
Attempts == 20

\* for protocol, client in [("REST", rest_client), ("MCP", mcp_client)]
Protocols == <<"REST", "MCP">>

\* The locals of one protocol's pass, as lines 221-223 set them.
EnterProtocol(protocol) ==
  [NoLoop EXCEPT !.pc = "top", !.protocol = protocol]

\* The operation one iteration awaits: echo_async("test") for REST,
\* chat_turn("session", "test", 1) for MCP.
IterationOp(protocol) ==
  IF protocol = "REST" THEN "echo_async" ELSE "mcp_chat_turn"

\* A bug: the handler catches the transport's errors only.
Catches_httpOnly(exc) == exc \in {"httpx.ConnectError", "httpx.HTTPStatusError"}

\* except Exception: every exception the exchange can raise is one.
Catches(exc) == TRUE

\* rest_client.set_network_conditions(latency_ms, packet_loss) and the same
\* for mcp_client: the bandwidth is left at its default, 0.
InitInstab ==
  /\ sim \in [latency_ms : LatencyChoices, packet_loss_rate : LossChoices,
              bandwidth_mbps : {0}]
  /\ now = 0
  /\ calls = 0
  /\ last = NoCall
  /\ ex = NoExchange
  /\ lp = EnterProtocol(Protocols[1])
  /\ results = <<>>
  /\ st = NoStream
  /\ srv = NoServer
  /\ chat = NoChat
  /\ batch = NoBatch
  /\ rt = NoPush
  /\ rest = NoRest
  /\ mc = NoCalls

\* The try block is entered: the iteration's one exchange is begun (for MCP
\* with the loop's own start timestamp taken just before).
BeginIteration ==
  /\ lp.pc = "top" /\ lp.iter < Attempts
  /\ BeginExchange(IterationOp(lp.protocol))
  /\ lp' = [lp EXCEPT !.pc = "await", !.started = lp.started + 1,
                      !.start = IF lp.protocol = "MCP" THEN now' ELSE NoTime]
  /\ UNCHANGED <<sim, calls, last, results, st, srv, chat, batch, rt, rest, mc>>

\* The exchange returned: total_latency += lat; successes += 1.
IterationSucceeds ==
  /\ lp.pc = "await" /\ ex.status = "returned"
  /\ LET lat == IF lp.protocol = "REST" THEN ex.latency ELSE now - lp.start
     IN  lp' = [lp EXCEPT !.pc = "top", !.iter = lp.iter + 1,
                          !.total_latency = lp.total_latency + lat,
                          !.successes = lp.successes + 1]
  /\ UNCHANGED <<sim, now, calls, last, ex, results, st, srv, chat, batch, rt, rest, mc>>

\* The exchange raised: except Exception: pass.  An exception the handler does
\* not catch leaves the scenario.
IterationRaises ==
  /\ lp.pc = "await" /\ ex.status = "raised"
  /\ lp' = IF Catches(ex.exc)
             THEN [lp EXCEPT !.pc = "top", !.iter = lp.iter + 1,
                      !.drops = lp.drops + (IF ex.exc = "ConnectionError" THEN 1 ELSE 0),
                      !.others = lp.others + (IF ex.exc = "ConnectionError" THEN 0 ELSE 1)]
             ELSE [lp EXCEPT !.pc = "aborted"]
  /\ UNCHANGED <<sim, now, calls, last, ex, results, st, srv, chat, batch, rt, rest, mc>>

\* A bug: no average is computed without successes, and the marker for "no
\* latency" is recorded instead of 0.
avg_latency_unmeasured(total_latency, successes) ==
  IF successes > 0 THEN total_latency \div successes ELSE NoLatency

\* avg_latency = total_latency / successes if successes > 0 else 0
avg_latency(total_latency, successes) ==
  IF successes > 0 THEN total_latency \div successes ELSE 0

\* A bug: the fraction recorded, the percentage forgotten.
success_rate_fraction(successes, attempts) == successes \div attempts

\* success_rate = (successes / attempts) * 100
success_rate(successes, attempts) == (successes * 100) \div attempts

\* The inner loop is over: the protocol's record is appended (latency_ms holds
\* microseconds here).
RecordResult ==
  /\ lp.pc = "top" /\ lp.iter = Attempts
  /\ results' = Append(results,
       [protocol |-> lp.protocol, scenario |-> "Network Instability",
        latency_ms |-> avg_latency(lp.total_latency, lp.successes),
        success_rate |-> success_rate(lp.successes, Attempts),
        bytes_sent |-> 0])
  /\ lp' = [lp EXCEPT !.pc = "recorded"]
  /\ UNCHANGED <<sim, now, calls, last, ex, st, srv, chat, batch, rt, rest, mc>>

\* The outer loop goes on to the next protocol, or the scenario returns.
NextProtocol ==
  /\ lp.pc = "recorded"
  /\ lp' = IF Len(results) < Len(Protocols)
             THEN EnterProtocol(Protocols[Len(results) + 1])
             ELSE [lp EXCEPT !.pc = "done"]
  /\ UNCHANGED <<sim, now, calls, last, ex, results, st, srv, chat, batch, rt, rest, mc>>

NextInstab ==
  \/ BeginIteration
  \/ ExchangeStep
  \/ IterationSucceeds
  \/ IterationRaises
  \/ RecordResult
  \/ NextProtocol

SpecInstab == InitInstab /\ [][NextInstab]_vars

\* ------------------------------------------ the client's event streams

(***************************************************************************)
(* A stream is read line by line (response.aiter_lines()).  A line is      *)
(* known by what the readers can tell of it:                               *)
(*   "other"      not a data line: "event: connection" or an empty line    *)
(*   "number"     "data: " and a JSON number, as the server's session-id   *)
(*                line "data: 1730000000.123" is (json.loads returns a     *)
(*                float)                                                   *)
(*   "text"       "data: " and text that json.loads rejects                *)
(*   "progress"   "data: " and a notifications/progress object, status     *)
(*                "running"                                                *)
(*   "completed"  "data: " and a notifications/progress object, status     *)
(*                "completed"                                              *)
(*   "update"     "data: " and a notifications/resources/updated object of *)
(*                the subscribed uri                                       *)
(* Every stream opens with "event: connection" and the session-id line.    *)
(* The server writes the id as str(time.time()), the form "number", and    *)
(* after it only JSON objects and empty lines; a stream of the form "text" *)
(* is any other server's, whose id is not JSON and whose later lines are   *)
(* free.                                                                   *)
(***************************************************************************)

\* httpx.AsyncClient(base_url=base_url, timeout=30.0): seconds without a byte
\* after which a read raises httpx.ReadTimeout.
ReadTimeoutSeconds == 30
\* duration: float = 5.0 of listen_for_events, and subscribe_to_resource's 5.0
ListenSeconds == 5

LineKinds == {"other", "number", "text", "progress", "completed", "update"}
\* What the session-id line carries.
SessionIdForms == {"number", "text"}
\* Time between two lines (microseconds); every one is below the read timeout.
LineGaps == {0, 2 * MicrosPerSecond}
\* duration arguments of listen_for_events (microseconds).
Durations == {MicrosPerSecond, ListenSeconds * MicrosPerSecond}
StreamReaders == {"connect_sse", "listen_for_events", "subscribe_to_resource"}

\* The kinds the line after n lines may have on a stream of the given form.
Arrivals(form, n) ==
  IF n = 0 THEN {"other"}
  ELSE IF n = 1 THEN {form}
  ELSE IF form = "number" THEN {"other", "progress", "completed", "update"}
  ELSE LineKinds

\* line.startswith("data: ")
IsData(line) == line # "other"

\* json.loads(data) returns a value (does not raise).
Parses(line) == line \in {"number", "progress", "completed", "update"}

\* The value json.loads returned is a dict, so that msg.get exists.
IsObject(line) == line \in {"progress", "completed", "update"}

\* A bug: the completion status never recognised.
Terminal_never(line) == FALSE

\* msg.get("params", {}).get("status") == "completed"
Terminal(line) == line = "completed"

\* msg.get("method") == "notifications/resources/updated" and
\* msg["params"]["uri"] == uri
Updates(line) == line = "update"

\* The reader returns: leaving "async with" closes the stream.
Return(s, why, t, result) ==
  [s EXCEPT !.pc = "returned", !.open = FALSE, !.finish = t,
            !.ended = why, !.result = result]

\* The reader raises: the exception leaves "async with", which closes the stream.
RaiseStream(s, exc, t) ==
  [s EXCEPT !.pc = "raised", !.open = FALSE, !.finish = t,
            !.ended = "exception", !.exc = exc]

\* The line read at time t, kept.
Read(s, line, t) ==
  [s EXCEPT !.lines = Append(@, line), !.times = Append(@, t)]

\* The body of connect_sse's loop for one line.
connect_sse(s, line, t) ==
  LET r == Read(s, line, t)
  IN  IF ~IsData(line) THEN r
      ELSE IF Parses(line) THEN r
      ELSE Return([r EXCEPT !.session_id = "text", !.live = TRUE],
                  "match", t, "session_id")

\* The body of listen_for_events' loop for one line.  A JSON value that is
\* no dict is appended before msg.get raises AttributeError, which the bare
\* except swallows.
listen_for_events(s, line, t) ==
  LET r == Read(s, line, t)
      got == [r EXCEPT !.events = Append(@, line)]
  IN  IF t - s.start > s.duration THEN Return(r, "budget", t, "events")
      ELSE IF ~IsData(line) THEN r
      ELSE IF ~Parses(line) THEN r
      ELSE IF IsObject(line) /\ Terminal(line)
        THEN Return(got, "completed", t, "events")
        ELSE got

\* The body of subscribe_to_resource's loop for one line.
subscribe_to_resource(s, line, t) ==
  LET r == Read(s, line, t)
  IN  IF t - s.start > s.duration THEN Return(r, "budget", t, "updates")
      ELSE IF ~IsData(line) THEN r
      ELSE IF ~Parses(line) THEN r
      ELSE IF IsObject(line) /\ Updates(line)
        THEN [r EXCEPT !.events = Append(@, line)]
        ELSE r

LoopBody(s, line, t) ==
  CASE s.fn = "connect_sse" -> connect_sse(s, line, t)
    [] s.fn = "listen_for_events" -> listen_for_events(s, line, t)
    [] s.fn = "subscribe_to_resource" -> subscribe_to_resource(s, line, t)

\* The reader's state as the stream is opened.  self.session_id, the
\* server's entry for it and the last answer to generate_task are kept.
Opened(fn, form, duration) ==
  [NoStream EXCEPT !.fn = fn, !.pc = "reading", !.open = TRUE, !.form = form,
                   !.duration = duration, !.start = 0,
                   !.session_id = st.session_id, !.live = st.live,
                   !.task = st.task]

Reading == st.pc = "reading"

\* await client.connect_sse()
CallConnectSse ==
  /\ ~Reading
  /\ \E form \in SessionIdForms : st' = Opened("connect_sse", form, 0)
  /\ now' = 0
  /\ UNCHANGED <<sim, calls, last, ex, lp, results, srv, chat, batch, rt, rest, mc>>

\* await client.listen_for_events(duration)
CallListenForEvents ==
  /\ ~Reading
  /\ \E form \in SessionIdForms, d \in Durations :
       st' = Opened("listen_for_events", form, d)
  /\ now' = 0
  /\ UNCHANGED <<sim, calls, last, ex, lp, results, srv, chat, batch, rt, rest, mc>>

\* await client.subscribe_to_resource(uri): the resources/subscribe request,
\* which may raise, then the stream.
CallSubscribeToResource ==
  /\ ~Reading
  /\ \E form \in SessionIdForms, o \in HttpOutcomes :
       st' = IF o = "ok"
               THEN Opened("subscribe_to_resource", form,
                           ListenSeconds * MicrosPerSecond)
               ELSE [Opened("subscribe_to_resource", "none", 0)
                       EXCEPT !.pc = "raised", !.open = FALSE, !.start = NoTime,
                              !.ended = "exception",
                              !.exc = IF o = "connect_error"
                                        THEN "httpx.ConnectError"
                                        ELSE "httpx.HTTPStatusError"]
  /\ now' = 0
  /\ UNCHANGED <<sim, calls, last, ex, lp, results, srv, chat, batch, rt, rest, mc>>

\* The next line arrives and the loop body runs on it.
ReadLine ==
  /\ Reading
  /\ Len(st.lines) < MaxLines
  /\ \E g \in LineGaps, line \in Arrivals(st.form, Len(st.lines)) :
       /\ now' = now + g
       /\ st' = LoopBody(st, line, now + g)
  /\ UNCHANGED <<sim, calls, last, ex, lp, results, srv, chat, batch, rt, rest, mc>>

\* No byte arrives for the read timeout: aiter_lines raises httpx.ReadTimeout,
\* which listen_for_events alone catches.
ReadTimeout ==
  /\ Reading
  /\ LET t == now + ReadTimeoutSeconds * MicrosPerSecond
     IN  /\ now' = t
         /\ st' = IF st.fn = "listen_for_events"
                    THEN Return(st, "timeout", t, "events")
                    ELSE RaiseStream(st, "httpx.ReadTimeout", t)
  /\ UNCHANGED <<sim, calls, last, ex, lp, results, srv, chat, batch, rt, rest, mc>>

\* The server ends the stream: the loop runs out and the reader returns what
\* it has, connect_sse None.
EndOfStream ==
  /\ Reading
  /\ st' = Return(st, "eof", now,
                  CASE st.fn = "connect_sse" -> "None"
                    [] st.fn = "listen_for_events" -> "events"
                    [] st.fn = "subscribe_to_resource" -> "updates")
  /\ UNCHANGED <<sim, now, calls, last, ex, lp, results, srv, chat, batch, rt, rest, mc>>

\* The server's generator of the stream that carried self.session_id finds
\* the stream closed and runs its finally: del sessions[session_id].
SessionDeleted ==
  /\ st.live
  /\ st' = [st EXCEPT !.live = FALSE]
  /\ UNCHANGED <<sim, now, calls, last, ex, lp, results, srv, chat, batch, rt, rest, mc>>

\* tools/call generate_task carrying self.session_id: "Task Started" if the
\* id is in sessions, the error -32602 if not.
GenerateTask ==
  /\ ~Reading
  /\ st.session_id # "none"
  /\ st' = [st EXCEPT !.task = IF st.live THEN "started" ELSE "rejected"]
  /\ UNCHANGED <<sim, now, calls, last, ex, lp, results, srv, chat, batch, rt, rest, mc>>

InitStream ==
  /\ sim = [latency_ms |-> 0, packet_loss_rate |-> 0, bandwidth_mbps |-> 0]
  /\ now = 0
  /\ calls = 0
  /\ last = NoCall
  /\ ex = NoExchange
  /\ lp = NoLoop
  /\ results = <<>>
  /\ st = NoStream
  /\ srv = NoServer
  /\ chat = NoChat
  /\ batch = NoBatch
  /\ rt = NoPush
  /\ rest = NoRest
  /\ mc = NoCalls

NextStream ==
  \/ CallConnectSse
  \/ CallListenForEvents
  \/ CallSubscribeToResource
  \/ ReadLine
  \/ ReadTimeout
  \/ EndOfStream
  \/ SessionDeleted
  \/ GenerateTask

SpecStream == InitStream /\ [][NextStream]_vars

\* ------------------------------------------------- the server's sessions

(***************************************************************************)
(* The server keeps one entry of sessions per stream: each GET /sse runs   *)
(* its own event_generator, with its own queue.  A connection is           *)
(*   "connecting"  the request accepted, the generator not yet run         *)
(*   "open"        the session registered and its connection event sent    *)
(*   "draining"    left by its client after it read the completed event    *)
(*   "timedout"    left by its client when its budget or read timeout ran  *)
(*                 out                                                     *)
(*   "closed"      left by its client otherwise (disconnected)             *)
(* and the generator's finally runs some time after the client has left.   *)
(* The clock is what time.time() returns, as an integer reading.           *)
(***************************************************************************)

\* for i in range(10): the running notifications of one task
TaskSteps == 10
\* progress = (i + 1) * 10
ProgressStep == 10

EndPhases == {"draining", "timedout", "closed"}

\* yield f"event: connection\ndata: {session_id}\n\n"
ConnectionEvent(sid) == [kind |-> "connection", value |-> sid]
\* The ticker's notifications/resources/updated message.
TickerUpdate == [kind |-> "update", value |-> 0]
\* A bug: every running notification reports the first step's progress.
Running_stuck(progress) == [kind |-> "running", value |-> ProgressStep]

\* The notifications/progress message with status "running".
Running_(progress) == [kind |-> "running", value |-> progress]
\* The notifications/progress message with status "completed".
Completion == [kind |-> "completed", value |-> TaskSteps * ProgressStep]

\* A message that went through the session's queue.
Queued(m) == m.kind \in {"running", "completed"}

\* A bug: the newest message taken first.
NextMessage_newest(queue) == queue[Len(queue)]

\* message = await asyncio.wait_for(queue.get(), timeout=0.1)
NextMessage(queue) == Head(queue)

\* A bug: an id already in sessions keeps the queue it has.
Register_keep(sessions, sid, c) ==
  IF sessions[sid] # NoConn THEN sessions ELSE [sessions EXCEPT ![sid] = c]

\* sessions[session_id] = queue
Register(sessions, sid, c) == [sessions EXCEPT ![sid] = c]

\* The generator of GET /sse before it has run.  put is not the code's: it
\* keeps every message ever put on the queue.
NewConn ==
  [phase |-> "connecting", sid |-> NoTime, queue |-> <<>>, sent |-> <<>>,
   put |-> <<>>, cleaned |-> FALSE]

Conns == 1 .. Len(srv.conns)

\* Ticker updates sent on connection c.
TickerCount(c) ==
  Len(SelectSeq(srv.conns[c].sent, LAMBDA m : m.kind = "update"))

\* GET /sse: a reader opens the stream.
Connect ==
  /\ Len(srv.conns) < MaxConns
  /\ srv' = [srv EXCEPT !.conns = Append(@, NewConn)]
  /\ UNCHANGED <<sim, now, calls, last, ex, lp, results, st, chat, batch, rt, rest, mc>>

\* event_generator up to its first yield.
Establish ==
  /\ \E c \in Conns :
       /\ srv.conns[c].phase = "connecting"
       /\ LET sid == srv.clock
          IN  srv' = [srv EXCEPT
                !.sessions = Register(@, sid, c),
                !.conns[c] = [@ EXCEPT !.phase = "open", !.sid = sid,
                                       !.sent = <<ConnectionEvent(sid)>>]]
  /\ UNCHANGED <<sim, now, calls, last, ex, lp, results, st, chat, batch, rt, rest, mc>>

\* The loop's first half: a queued message is taken and sent.
Deliver ==
  /\ \E c \in Conns :
       /\ srv.conns[c].phase = "open"
       /\ srv.conns[c].queue # <<>>
       /\ srv' = [srv EXCEPT
            !.conns[c] = [@ EXCEPT !.sent = Append(@, NextMessage(srv.conns[c].queue)),
                                   !.queue = Tail(@)]]
  /\ UNCHANGED <<sim, now, calls, last, ex, lp, results, st, chat, batch, rt, rest, mc>>

\* The loop's second half: the ticker update, when the clock says so.
Ticker ==
  /\ \E c \in Conns :
       /\ srv.conns[c].phase = "open"
       /\ TickerCount(c) < MaxTickerUpdates
       /\ srv' = [srv EXCEPT !.conns[c].sent = Append(@, TickerUpdate)]
  /\ UNCHANGED <<sim, now, calls, last, ex, lp, results, st, chat, batch, rt, rest, mc>>

\* The client leaves the stream: after the completed event, on its budget
\* or read timeout, or otherwise.
ClientLeaves ==
  /\ \E c \in Conns, why \in EndPhases :
       /\ srv.conns[c].phase = "open"
       /\ why = "draining" =>
            \E i \in 1 .. Len(srv.conns[c].sent) :
              srv.conns[c].sent[i].kind = "completed"
       /\ srv' = [srv EXCEPT !.conns[c].phase = why]
  /\ UNCHANGED <<sim, now, calls, last, ex, lp, results, st, chat, batch, rt, rest, mc>>

\* A message taken from the queue of a stream its client has left: the
\* yield has nobody to go to.
Discard ==
  /\ \E c \in Conns :
       /\ srv.conns[c].phase \in EndPhases
       /\ ~srv.conns[c].cleaned
       /\ srv.conns[c].queue # <<>>
       /\ srv' = [srv EXCEPT !.conns[c].queue = Tail(@)]
  /\ UNCHANGED <<sim, now, calls, last, ex, lp, results, st, chat, batch, rt, rest, mc>>

\* finally: del sessions[session_id], which raises KeyError when the entry
\* is gone already.
Finally ==
  /\ \E c \in Conns :
       /\ srv.conns[c].phase \in EndPhases
       /\ ~srv.conns[c].cleaned
       /\ LET sid == srv.conns[c].sid
          IN  srv' = [srv EXCEPT
                !.conns[c].cleaned = TRUE,
                !.sessions[sid] = NoConn,
                !.keyerrors = IF srv.sessions[sid] = NoConn THEN @ + 1 ELSE @]
  /\ UNCHANGED <<sim, now, calls, last, ex, lp, results, st, chat, batch, rt, rest, mc>>

\* tools/call generate_task with a sessionId: the task is created if the id
\* is in sessions, and refused if not.
GenerateTaskRequest ==
  /\ Len(srv.tasks) + srv.refused < MaxTasks
  /\ \E sid \in SessionIds :
       srv' = IF srv.sessions[sid] # NoConn
                THEN [srv EXCEPT !.tasks = Append(@, [pc |-> "created", sid |-> sid,
                                                      conn |-> NoConn, i |-> 0])]
                ELSE [srv EXCEPT !.refused = @ + 1]
  /\ UNCHANGED <<sim, now, calls, last, ex, lp, results, st, chat, batch, rt, rest, mc>>

\* run_mcp_task's first lines: queue = sessions.get(session_id), and return
\* if there is none.
TaskBegins ==
  /\ \E t \in 1 .. Len(srv.tasks) :
       /\ srv.tasks[t].pc = "created"
       /\ LET c == srv.sessions[srv.tasks[t].sid]
          IN  srv' = [srv EXCEPT
                !.tasks[t] = IF c = NoConn THEN [@ EXCEPT !.pc = "done"]
                             ELSE [@ EXCEPT !.pc = "running", !.conn = c]]
  /\ UNCHANGED <<sim, now, calls, last, ex, lp, results, st, chat, batch, rt, rest, mc>>

\* One await queue.put(...) of run_mcp_task: the ten running notifications,
\* then the completed one.
TaskPuts ==
  /\ \E t \in 1 .. Len(srv.tasks) :
       /\ srv.tasks[t].pc = "running"
       /\ LET c == srv.tasks[t].conn
              i == srv.tasks[t].i
              m == IF i < TaskSteps THEN Running_((i + 1) * ProgressStep)
                   ELSE Completion
          IN  srv' = [srv EXCEPT
                !.conns[c] = [@ EXCEPT !.queue = Append(@, m), !.put = Append(@, m)],
                !.tasks[t] = [@ EXCEPT !.i = i + 1,
                                       !.pc = IF i < TaskSteps THEN "running" ELSE "done"]]
  /\ UNCHANGED <<sim, now, calls, last, ex, lp, results, st, chat, batch, rt, rest, mc>>

\* time.time() returns a later value.
Tick ==
  /\ srv.clock < MaxClock
  /\ srv' = [srv EXCEPT !.clock = @ + 1]
  /\ UNCHANGED <<sim, now, calls, last, ex, lp, results, st, chat, batch, rt, rest, mc>>

InitServer ==
  /\ sim = [latency_ms |-> 0, packet_loss_rate |-> 0, bandwidth_mbps |-> 0]
  /\ now = 0
  /\ calls = 0
  /\ last = NoCall
  /\ ex = NoExchange
  /\ lp = NoLoop
  /\ results = <<>>
  /\ st = NoStream
  /\ srv = NoServer
  /\ chat = NoChat
  /\ batch = NoBatch
  /\ rt = NoPush
  /\ rest = NoRest
  /\ mc = NoCalls

NextServer ==
  \/ Connect
  \/ Establish
  \/ Deliver
  \/ Ticker
  \/ ClientLeaves
  \/ Discard
  \/ Finally
  \/ GenerateTaskRequest
  \/ TaskBegins
  \/ TaskPuts
  \/ Tick

SpecServer == InitServer /\ [][NextServer]_vars

\* ------------------------------------------------- bench_multi_turn_chat

(***************************************************************************)
(* The sizes the two chat_turn methods report are lengths of json.dumps    *)
(* output.  A text is known by the length of its JSON encoding without the *)
(* quotes (its own length when JSON escapes none of its characters, as for *)
(* the scenario's "Message 0" .. "Message 9"); json.dumps writes ", "      *)
(* between items and ": " after a key.                                     *)
(***************************************************************************)

\* iterations: int = 10
Iterations == 10
\* len(json.dumps({"message": "", "history": []}))
RestEnvelope == 30
\* len(json.dumps({"role": "", "content": ""}))
EntryEnvelope == 27
\* len(", "), between two items of a list
ItemSeparator == 2
\* len("user")
UserRoleLen == 4
\* len("assistant")
AssistantRoleLen == 9
\* len("Echo:  (Context:  msgs)")
EchoEnvelope == 23
\* len(json.dumps({"message": "", "sessionId": "", "turnCount": 1})) - 1
McpEnvelope == 47
\* payload_size = len(json.dumps(args)) + 100
McpAllowance == 100
\* len("session_123")
SessionIdLen == 11

\* Lengths of the messages a caller sends; 9 is len("Message 0").
MessageLens == {0, 9, 30}

\* The number of decimal digits of n, as str(n) and json.dumps(n) write it.
RECURSIVE Digits(_)
Digits(n) == IF n < 10 THEN 1 ELSE 1 + Digits(n \div 10)

\* len(json.dumps(entry)) of one history entry.
EntryLen(entry) ==
  EntryEnvelope + entry.content
    + (IF entry.role = "user" THEN UserRoleLen ELSE AssistantRoleLen)

\* len(json.dumps(history)) - 2: the entries and the separators between them.
RECURSIVE HistoryLen(_)
HistoryLen(history) ==
  IF history = <<>> THEN 0
  ELSE IF Len(history) = 1 THEN EntryLen(history[1])
  ELSE EntryLen(history[1]) + ItemSeparator + HistoryLen(Tail(history))

\* RestClient.chat_turn: len(json.dumps({"message": message, "history": history}))
RestBytesSent(history, message) == RestEnvelope + message + HistoryLen(history)

\* The REST server's f"Echo: {request.message} (Context: {len(request.history)} msgs)"
EchoLen(history, message) == EchoEnvelope + message + Digits(Len(history))

\* A bug: the counter written as so many characters as there were turns.
McpBytesSent_perTurn(session_id, message, turn_count) ==
  McpEnvelope + message + session_id + turn_count + McpAllowance

\* McpClient.chat_turn: len(json.dumps(args)) + 100, args holding the
\* message, the session id and the turn counter.
McpBytesSent(session_id, message, turn_count) ==
  McpEnvelope + message + session_id + Digits(turn_count) + McpAllowance

\* A bug: the history left as it was.
UpdateHistory_forgets(history, message, response) == history

\* history.append({"role": "user", ...}); history.append({"role": "assistant", ...})
UpdateHistory(history, message, response) ==
  history \o <<[role |-> "user", content |-> message],
               [role |-> "assistant", content |-> response]>>

\* One iteration of the REST loop that ran through.
RestChatTurn ==
  /\ chat.protocol = "REST"
  /\ chat.pc = "loop"
  /\ \E message \in MessageLens :
       chat' = [chat EXCEPT
         !.i = @ + 1,
         !.pc = IF chat.i + 1 = Iterations THEN "done" ELSE "loop",
         !.history = UpdateHistory(@, message, EchoLen(chat.history, message)),
         !.bytes = Append(@, RestBytesSent(chat.history, message)),
         !.msgs = Append(@, message)]
  /\ UNCHANGED <<sim, now, calls, last, ex, lp, results, st, srv, batch, rt, rest, mc>>

\* One iteration of the MCP loop that ran through.
McpChatTurn ==
  /\ chat.protocol = "MCP"
  /\ chat.pc = "loop"
  /\ \E message \in MessageLens :
       chat' = [chat EXCEPT
         !.i = @ + 1,
         !.pc = IF chat.i + 1 = Iterations THEN "done" ELSE "loop",
         !.bytes = Append(@, McpBytesSent(SessionIdLen, message, chat.i + 1)),
         !.msgs = Append(@, message)]
  /\ UNCHANGED <<sim, now, calls, last, ex, lp, results, st, srv, batch, rt, rest, mc>>

\* A turn raises (the request fails): the exception leaves the loop through
\* the finally.
ChatTurnRaises ==
  /\ chat.pc = "loop"
  /\ chat' = [chat EXCEPT !.pc = "raised"]
  /\ UNCHANGED <<sim, now, calls, last, ex, lp, results, st, srv, batch, rt, rest, mc>>

\* One of the two loops of bench_multi_turn_chat, entered.
InitChat ==
  /\ sim = [latency_ms |-> 0, packet_loss_rate |-> 0, bandwidth_mbps |-> 0]
  /\ now = 0
  /\ calls = 0
  /\ last = NoCall
  /\ ex = NoExchange
  /\ lp = NoLoop
  /\ results = <<>>
  /\ st = NoStream
  /\ srv = NoServer
  /\ batch = NoBatch
  /\ rt = NoPush
  /\ rest = NoRest
  /\ mc = NoCalls
  /\ \E protocol \in {"REST", "MCP"} :
       chat = [NoChat EXCEPT !.protocol = protocol, !.pc = "loop"]

NextChat == RestChatTurn \/ McpChatTurn \/ ChatTurnRaises

SpecChat == InitChat /\ [][NextChat]_vars

\* ------------------------------------------------ the benchmark programs
\*
\* run_all_benchmarks awaits seven scenarios one after the other and then
\* writes what they returned; run_benchmarks is one function with three
\* measurement loops.  A scenario is the sequence of its remote calls, loops
\* unrolled MaxRounds times; each call carries the handler that is in force
\* where the code makes it:
\*   "none"  no except clause (try/finally only, or outside any try),
\*   "skip"  an inner try/except around this call alone,
\*   "stop"  the scenario's try/except Exception (the rest is abandoned),
\*   "pass"  the per-attempt except Exception: pass.
\* A step whose call is "" makes no remote call and only appends a record.

Failures == {"unreachable", "http_error", "dropped"}

RequiredFields == {"protocol", "scenario", "latency_ms", "bytes_sent"}

Step(scenario, protocol, call, handler, fields) ==
  [scenario |-> scenario, protocol |-> protocol, call |-> call,
   handler |-> handler, fields |-> fields]

RECURSIVE Repeat(_, _)
Repeat(body, n) == IF n = 0 THEN <<>> ELSE body \o Repeat(body, n - 1)

bench_multi_turn_chat ==
  LET Chat == {"protocol", "scenario", "turn", "latency_ms", "bytes_sent"}
  IN
    Repeat(<<Step("Chat", "REST", "chat_turn", "none", Chat)>>, MaxRounds)
    \o <<Step("Chat", "MCP", "initialize_async", "none", {})>>
    \o Repeat(<<Step("Chat", "MCP", "chat_turn", "none", Chat)>>, MaxRounds)

bench_concurrency ==
  LET Concurrency == {"protocol", "scenario", "latency_ms", "rps",
                      "bytes_sent"}
  IN
    <<Step("Concurrency", "REST", "ping_async", "none", Concurrency),
      Step("Concurrency", "MCP", "call_tool_async", "none", Concurrency)>>

bench_long_running ==
  LET LongTask == {"protocol", "scenario", "latency_ms",
                   "overhead_requests", "bytes_sent"}
  IN
    <<Step("Long Task", "REST", "run_task_polling", "none", LongTask),
      Step("Long Task", "MCP", "run_task_with_notifications", "skip",
           LongTask)>>

bench_stock_ticker ==
  LET LongTask == {"protocol", "scenario", "latency_ms",
                   "overhead_requests", "bytes_sent"}
  IN
    Repeat(<<Step("Stock Ticker", "REST", "get", "stop", {})>>, MaxRounds)
    \o <<Step("Stock Ticker", "REST", "", "stop", LongTask),
         Step("Stock Ticker", "MCP", "subscribe_to_resource", "stop",
              LongTask)>>

bench_network_instability ==
  LET Instability == {"protocol", "scenario", "latency_ms", "success_rate",
                      "bytes_sent"}
  IN
    Repeat(<<Step("Network Instability", "REST", "echo_async", "pass", {})>>,
           MaxRounds)
    \o <<Step("Network Instability", "REST", "", "pass", Instability)>>
    \o Repeat(<<Step("Network Instability", "MCP", "chat_turn", "pass", {})>>,
              MaxRounds)
    \o <<Step("Network Instability", "MCP", "", "pass", Instability)>>

bench_tool_chaining ==
  LET Chaining == {"protocol", "scenario", "latency_ms", "bytes_sent",
                   "steps"}
  IN
    <<Step("Tool Chaining", "REST", "chain_workflow", "stop", Chaining),
      Step("Tool Chaining", "MCP", "chain_workflow", "stop", Chaining)>>

bench_real_world_chat ==
  LET Chat == {"protocol", "scenario", "turn", "latency_ms", "bytes_sent"}
  IN
    <<Step("Real-World Chat", "MCP", "initialize_async", "none", {})>>
    \o Repeat(<<Step("Real-World Chat", "REST", "chat_turn", "stop", Chat),
                Step("Real-World Chat", "MCP", "chat_turn", "stop", Chat)>>,
              MaxRounds)

run_all_benchmarks ==
  <<bench_multi_turn_chat, bench_concurrency, bench_long_running,
    bench_stock_ticker, bench_network_instability, bench_tool_chaining,
    bench_real_world_chat>>

run_benchmarks ==
  LET Basic == {"protocol", "scenario", "latency_ms"}
  IN
    <<Repeat(<<Step("Warmup", "REST", "ping", "none", {}),
               Step("Warmup", "MCP", "initialize", "none", {})>>, MaxRounds)
      \o Repeat(<<Step("Ping", "REST", "ping", "none", Basic),
                  Step("Ping", "MCP", "list_tools", "none", Basic)>>,
                MaxRounds)
      \o Repeat(<<Step("Tool Call", "REST", "calculate", "none", Basic),
                  Step("Tool Call", "MCP", "call_tool", "none", Basic)>>,
                MaxRounds)
      \o Repeat(<<Step("Context Retrieval", "REST", "get_context", "none",
                       Basic),
                  Step("Context Retrieval", "MCP", "read_resource", "none",
                       Basic)>>, MaxRounds)>>

Scenarios(name) ==
  IF name = "advanced" THEN run_all_benchmarks ELSE run_benchmarks

\* The record a step appends: its keys, with the two the reports group by.
MeasurementRecord(step) ==
  [protocol |-> step.protocol, scenario |-> step.scenario,
   fields |-> step.fields]

Scenario == Scenarios(batch.program)[batch.s]

InScenario ==
  /\ batch.pc = "scenario"
  /\ batch.k <= Len(Scenario)

\* asyncio.run(run_all_benchmarks(...)): all_results = [] and the first
\* scenario is entered with its own results = [].
RunAllBenchmarks ==
  /\ batch.pc = "off"
  /\ batch' = [batch EXCEPT !.pc = "scenario", !.program = "advanced",
                            !.s = 1, !.k = 1, !.ran = {1}]
  /\ UNCHANGED <<sim, now, calls, last, ex, lp, results, st, srv, chat, rt,
                 rest, mc>>

\* run_benchmarks(iterations): results = [] and the try block is entered.
RunBenchmarks ==
  /\ batch.pc = "off"
  /\ batch' = [batch EXCEPT !.pc = "scenario", !.program = "basic",
                            !.s = 1, !.k = 1, !.ran = {1}]
  /\ UNCHANGED <<sim, now, calls, last, ex, lp, results, st, srv, chat, rt,
                 rest, mc>>

\* What a failed call leads to under each handler: the step the scenario
\* goes on with, or the exception leaving the scenario.
AfterFailure(handler, k, len) ==
  IF handler = "none" THEN 0
  ELSE IF handler = "stop" THEN len + 1
  ELSE k + 1

\* One remote call of the scenario, answered or failing.  On success the
\* record of the step, if it has one, is appended to the scenario's results.
RemoteCall ==
  /\ InScenario
  /\ Scenario[batch.k].call # ""
  /\ \E outcome \in {"ok"} \union Failures :
       LET step == Scenario[batch.k]
           next == AfterFailure(step.handler, batch.k, Len(Scenario))
       IN  batch' =
             IF outcome = "ok"
               THEN [batch EXCEPT
                       !.k = @ + 1,
                       !.results = IF step.fields = {} THEN @
                                   ELSE Append(@, MeasurementRecord(step))]
             ELSE IF next = 0
               THEN [batch EXCEPT !.pc = "raised", !.exc = outcome,
                                  !.results = <<>>]
               ELSE [batch EXCEPT !.k = next]
  /\ UNCHANGED <<sim, now, calls, last, ex, lp, results, st, srv, chat, rt,
                 rest, mc>>

\* results.append({...}) after a loop: no remote call is involved.
AppendSummary ==
  /\ InScenario
  /\ Scenario[batch.k].call = ""
  /\ batch' = [batch EXCEPT
                 !.k = @ + 1,
                 !.results = Append(@, MeasurementRecord(Scenario[batch.k]))]
  /\ UNCHANGED <<sim, now, calls, last, ex, lp, results, st, srv, chat, rt,
                 rest, mc>>

\* return results; all_results.extend(...) and the next scenario is awaited.
ScenarioReturns ==
  /\ batch.pc = "scenario"
  /\ batch.k > Len(Scenario)
  /\ batch' =
       IF batch.s < Len(Scenarios(batch.program))
         THEN [batch EXCEPT !.s = @ + 1, !.k = 1, !.results = <<>>,
                            !.all_results = @ \o batch.results,
                            !.ran = @ \union {batch.s + 1}]
         ELSE [batch EXCEPT !.pc = "write", !.results = <<>>,
                            !.all_results = @ \o batch.results]
  /\ UNCHANGED <<sim, now, calls, last, ex, lp, results, st, srv, chat, rt,
                 rest, mc>>

\* pd.DataFrame(all_results).to_csv(output_file).
WriteCsv ==
  /\ batch.pc = "write"
  /\ batch' = [batch EXCEPT !.pc = "written", !.csv = batch.all_results]
  /\ UNCHANGED <<sim, now, calls, last, ex, lp, results, st, srv, chat, rt,
                 rest, mc>>

InitBatch ==
  /\ sim = [latency_ms |-> 0, packet_loss_rate |-> 0, bandwidth_mbps |-> 0]
  /\ now = 0
  /\ calls = 0
  /\ last = NoCall
  /\ ex = NoExchange
  /\ lp = NoLoop
  /\ results = <<>>
  /\ st = NoStream
  /\ srv = NoServer
  /\ chat = NoChat
  /\ batch = NoBatch
  /\ rt = NoPush
  /\ rest = NoRest
  /\ mc = NoCalls

NextBatch ==
  \/ RunAllBenchmarks
  \/ RunBenchmarks
  \/ RemoteCall
  \/ AppendSummary
  \/ ScenarioReturns
  \/ WriteCsv

SpecBatch == InitBatch /\ [][NextBatch]_vars

\* ------------------------------------------ the task with notifications
\*
\* McpClient.run_task_with_notifications against the server above: the call
\* opens its own stream, takes the session id from the first data line that
\* float() accepts, posts generate_task with it and then counts the
\* notifications/progress events until one says "completed".  The server's
\* actions are those of the sessions specification; other readers may open
\* and close streams beside the call's.

\* async with self.async_client.stream("GET", "/sse") as response.
CallRunTask ==
  /\ rt.pc = "idle"
  /\ Len(srv.conns) < MaxConns
  /\ srv' = [srv EXCEPT !.conns = Append(@, NewConn)]
  /\ rt' = [rt EXCEPT !.pc = "reading", !.conn = Len(srv.conns) + 1]
  /\ UNCHANGED <<sim, now, calls, last, ex, lp, results, st, chat, batch,
                 rest, mc>>

\* One turn of async for line in response.aiter_lines() on a data line.
\* Before the id is known only a line float() accepts does anything; after
\* the request only notifications/progress events count.
PushReadsLine ==
  /\ rt.pc = "reading"
  /\ rt.read < Len(srv.conns[rt.conn].sent)
  /\ LET line == srv.conns[rt.conn].sent[rt.read + 1]
         r == [rt EXCEPT !.read = @ + 1]
     IN  rt' =
           IF rt.session_id = NoTime
             THEN IF line.kind = "connection"
                    THEN [r EXCEPT !.session_id = line.value,
                                   !.pc = "requesting"]
                    ELSE r
           ELSE IF rt.task_started /\ Queued(line)
             THEN [r EXCEPT !.event_count = @ + 1, !.seen = line.kind,
                            !.pc = IF line.kind = "completed" THEN "returned"
                                   ELSE "reading"]
             ELSE r
  /\ UNCHANGED <<sim, now, calls, last, ex, lp, results, st, srv, chat,
                 batch, rest, mc>>

\* await self._send_request_async("tools/call", generate_task): a simulated
\* drop or an HTTP failure raises out of the call; any answered request,
\* started or refused, is followed by task_started = True.
PushRequest ==
  /\ rt.pc = "requesting"
  /\ \E out \in HttpOutcomes \union {"dropped"} :
       IF out = "ok"
         THEN LET started == srv.sessions[rt.session_id] # NoConn
              IN  /\ srv' = IF started
                              THEN [srv EXCEPT !.tasks =
                                      Append(@, [pc |-> "created",
                                                 sid |-> rt.session_id,
                                                 conn |-> NoConn, i |-> 0])]
                              ELSE [srv EXCEPT !.refused = @ + 1]
                  /\ rt' = [rt EXCEPT
                              !.pc = "reading", !.task_started = TRUE,
                              !.response = IF started THEN "Task Started"
                                           ELSE "error"]
         ELSE /\ rt' = [rt EXCEPT !.pc = "raised", !.exc = out]
              /\ srv' = srv
  /\ UNCHANGED <<sim, now, calls, last, ex, lp, results, st, chat, batch,
                 rest, mc>>

\* A reader goes away: any other reader at any time, the call's own stream
\* only when the call has left its async with block.
PushClientLeaves ==
  /\ ClientLeaves
  /\ \/ rt.pc \in {"idle", "returned", "raised"}
     \/ srv'.conns[rt.conn] = srv.conns[rt.conn]

InitPush ==
  /\ sim = [latency_ms |-> 0, packet_loss_rate |-> 0, bandwidth_mbps |-> 0]
  /\ now = 0
  /\ calls = 0
  /\ last = NoCall
  /\ ex = NoExchange
  /\ lp = NoLoop
  /\ results = <<>>
  /\ st = NoStream
  /\ srv = NoServer
  /\ chat = NoChat
  /\ batch = NoBatch
  /\ rt = NoPush
  /\ rest = NoRest
  /\ mc = NoCalls

NextPush ==
  \/ CallRunTask
  \/ PushReadsLine
  \/ PushRequest
  \/ PushClientLeaves
  \/ Connect
  \/ Establish
  \/ Deliver
  \/ Ticker
  \/ Discard
  \/ Finally
  \/ TaskBegins
  \/ TaskPuts
  \/ Tick

SpecPush == InitPush /\ [][NextPush]_vars

\* ------------------------------------------------- the REST task store
\*
\* POST /tasks/generate stores an entry under str(time.time()) and starts
\* run_background_task for it; GET /tasks/{id} returns the entry as it is.
\* The server runs on one event loop, so the statements between two awaits
\* of a coroutine are one step.  run_task_polling is one client of it.

\* tasks[task_id] = {"status": "pending", "progress": 0, "result": None} and
\* asyncio.create_task(run_background_task(task_id, complexity)).
Generate(r) ==
  [r EXCEPT
     !.tasks[r.clock] =
        [status |-> "pending", progress |-> 0, result |-> "None"],
     !.jobs = Append(@, [task_id |-> r.clock, i |-> 0])]

\* POST /tasks/generate from any client.
RestGenerateTask ==
  /\ Len(rest.jobs) < MaxJobs
  /\ rest' = Generate(rest)
  /\ UNCHANGED <<sim, now, calls, last, ex, lp, results, st, srv, chat,
                 batch, rt, mc>>

\* run_task_polling up to task_id = resp.json()["task_id"].
RunTaskPolling ==
  /\ rest.pc = "idle"
  /\ Len(rest.jobs) < MaxJobs
  /\ rest' = [Generate(rest) EXCEPT !.pc = "polling", !.task_id = rest.clock]
  /\ UNCHANGED <<sim, now, calls, last, ex, lp, results, st, srv, chat,
                 batch, rt, mc>>

\* One turn of run_background_task's loop after its sleep; the tenth turn
\* runs on, with no await, into the two assignments after the loop.
BackgroundStep ==
  /\ \E j \in 1 .. Len(rest.jobs) :
       LET job == rest.jobs[j]
           progress == (job.i + 1) * ProgressStep
       IN  /\ job.i < TaskSteps
           /\ rest' = [rest EXCEPT
                !.jobs[j].i = @ + 1,
                !.tasks[job.task_id] =
                   IF job.i + 1 < TaskSteps
                     THEN [@ EXCEPT !.progress = progress]
                     ELSE [status |-> "completed", progress |-> progress,
                           result |-> "Task Completed Successfully"]]
  /\ UNCHANGED <<sim, now, calls, last, ex, lp, results, st, srv, chat,
                 batch, rt, mc>>

\* One turn of the polling loop: polls += 1, GET /tasks/{task_id}, and the
\* break on status "completed".
Poll ==
  /\ rest.pc = "polling"
  /\ rest.polls < MaxPolls
  /\ rest' = [rest EXCEPT
                !.polls = @ + 1,
                !.pc = IF rest.tasks[rest.task_id].status = "completed"
                         THEN "returned" ELSE "polling"]
  /\ UNCHANGED <<sim, now, calls, last, ex, lp, results, st, srv, chat,
                 batch, rt, mc>>

\* time.time() returns a later value.
RestTick ==
  /\ rest.clock < MaxClock
  /\ rest' = [rest EXCEPT !.clock = @ + 1]
  /\ UNCHANGED <<sim, now, calls, last, ex, lp, results, st, srv, chat,
                 batch, rt, mc>>

InitRest ==
  /\ sim = [latency_ms |-> 0, packet_loss_rate |-> 0, bandwidth_mbps |-> 0]
  /\ now = 0
  /\ calls = 0
  /\ last = NoCall
  /\ ex = NoExchange
  /\ lp = NoLoop
  /\ results = <<>>
  /\ st = NoStream
  /\ srv = NoServer
  /\ chat = NoChat
  /\ batch = NoBatch
  /\ rt = NoPush
  /\ rest = NoRest
  /\ mc = NoCalls

NextRest ==
  \/ RestGenerateTask
  \/ RunTaskPolling
  \/ BackgroundStep
  \/ Poll
  \/ RestTick

SpecRest == InitRest /\ [][NextRest]_vars

\* ----------------------------------------------- the client's request ids
\*
\* asyncio.gather runs several call_tool_async coroutines of one McpClient
\* on one event loop: a coroutine runs alone from one suspension to the
\* next, and it suspends only in an await that really waits (asyncio.sleep
\* in the simulator, the HTTP post).  built lists the ids in the order the
\* payloads were built.

\* A bug: the counter is raised for the first request only.
get_next_id_reused(request_id) == IF request_id = 0 THEN 1 ELSE request_id

\* self.request_id += 1; return self.request_id
get_next_id(request_id) == request_id + 1

\* _send_request_async after simulate_network: the payload is built with
\* the next id and posted.
BuildAndPost(m, k) ==
  LET id == get_next_id(m.request_id)
  IN  [m EXCEPT !.request_id = id,
                !.calls[k] = [@ EXCEPT !.pc = "posting", !.id = id],
                !.built = Append(@, id)]

\* call_tool_async up to its first suspension: the size is computed for id
\* self.request_id + 1, then simulate_network sleeps (before a drop, or for
\* a latency above 0) or returns at once, in which case the payload is
\* built and posted in the same step.
CallToolAsync ==
  /\ Len(mc.calls) < MaxAgents
  /\ \E r \in Draws :
       LET k == Len(mc.calls) + 1
           res == simulate_network(sim, r)
           started == [mc EXCEPT !.calls =
                         Append(@, [pc |-> "sleeping", id |-> 0,
                                    predicted |-> mc.request_id + 1])]
       IN  mc' = IF res.outcome = "dropped"
                   THEN [started EXCEPT !.calls[k].pc = "dropping"]
                 ELSE IF res.delay > 0 THEN started
                 ELSE BuildAndPost(started, k)
  /\ UNCHANGED <<sim, now, calls, last, ex, lp, results, st, srv, chat,
                 batch, rt, rest>>

\* asyncio.sleep is over: the drop is raised, or the request is built.
Wakes ==
  /\ \E k \in 1 .. Len(mc.calls) :
       \/ /\ mc.calls[k].pc = "dropping"
          /\ mc' = [mc EXCEPT !.calls[k].pc = "raised"]
       \/ /\ mc.calls[k].pc = "sleeping"
          /\ mc' = BuildAndPost(mc, k)
  /\ UNCHANGED <<sim, now, calls, last, ex, lp, results, st, srv, chat,
                 batch, rt, rest>>

\* The response arrives and call_tool_async returns (latency, bytes_sent).
Responds ==
  /\ \E k \in 1 .. Len(mc.calls) :
       /\ mc.calls[k].pc = "posting"
       /\ mc' = [mc EXCEPT !.calls[k].pc = "returned"]
  /\ UNCHANGED <<sim, now, calls, last, ex, lp, results, st, srv, chat,
                 batch, rt, rest>>

InitIds ==
  /\ sim \in Conditions
  /\ now = 0
  /\ calls = 0
  /\ last = NoCall
  /\ ex = NoExchange
  /\ lp = NoLoop
  /\ results = <<>>
  /\ st = NoStream
  /\ srv = NoServer
  /\ chat = NoChat
  /\ batch = NoBatch
  /\ rt = NoPush
  /\ rest = NoRest
  /\ mc = NoCalls

NextIds ==
  \/ CallToolAsync
  \/ Wakes
  \/ Responds

SpecIds == InitIds /\ [][NextIds]_vars

\* ---------------------------------------------- claims about the simulator

\* The last simulator call has been made.
Called == last.op # "none"

\* What the last call added on top of the link's own delay.
TransferDelay == last.delay - simulate_network(last.cond, last.draw).delay

\* C1: with packet_loss_rate = 0 no call of simulate_network or of
\* simulate_transfer ends in the simulated drop, whatever the latency, the
\* bandwidth and the value random.random() would return.
C1_ZeroLossNeverDrops ==
  (Called /\ last.cond.packet_loss_rate = 0) => last.outcome # "dropped"

\* A second call in a row under rate 0, with the smallest draw.
C1_Witness ==
  /\ Called /\ calls >= 2
  /\ last.cond.packet_loss_rate = 0 /\ last.draw = 0
  /\ last.outcome = "ok"

\* C2: with packet_loss_rate = 1 every call of simulate_network ends in the
\* simulated drop, for every draw in [0, 1).
C2_FullLossAlwaysDrops ==
  (Called /\ last.cond.packet_loss_rate = RandResolution)
     => last.outcome = "dropped"

\* A drop under rate 1 with the largest draw below 1.
C2_Witness ==
  /\ Called /\ last.op = "simulate_network"
  /\ last.cond.packet_loss_rate = RandResolution
  /\ last.draw = RandResolution - 1
  /\ last.outcome = "dropped"

\* C4: a call that ends in a drop has suspended its caller for latency_ms
\* before it raises: at least latency_ms have passed since the call started.
C4_DropPaysLatency ==
  (Called /\ last.outcome = "dropped")
     => now - last.start >= last.cond.latency_ms * MicrosPerMilli

\* A drop under a non-zero latency.
C4_Witness ==
  /\ Called /\ last.outcome = "dropped"
  /\ last.cond.latency_ms > 0
  /\ now > last.start

\* C9: with bandwidth_mbps = 0, simulate_transfer(n) ends as simulate_network
\* does and suspends for exactly as long, for every n, and divides by nothing.
C9_ZeroBandwidthIsLinkOnly ==
  (Called /\ last.op = "simulate_transfer" /\ last.cond.bandwidth_mbps = 0)
     => /\ last.outcome = simulate_network(last.cond, last.draw).outcome
        /\ now - last.start = simulate_network(last.cond, last.draw).delay
        /\ last.outcome # "zero_division"

\* A transfer of 100 bytes under bandwidth 0 and a non-zero latency.
C9_Witness ==
  /\ Called /\ last.op = "simulate_transfer"
  /\ last.cond.bandwidth_mbps = 0 /\ last.bytes_count = 100
  /\ last.cond.latency_ms > 0 /\ last.outcome = "ok"

\* The case of C10: 100 bytes through bandwidth_mbps = 8, not dropped.
C10_Case ==
  /\ Called /\ last.op = "simulate_transfer"
  /\ last.cond.bandwidth_mbps = 8 /\ last.bytes_count = 100
  /\ last.outcome = "ok"

\* C10 as stated: bandwidth 8 and 100 bytes add about 100 seconds of transfer
\* delay (bandwidth 8 behaving as 1 byte per second), to within a second.
C10_Original ==
  C10_Case =>
    /\ TransferDelay >= 100 * MicrosPerSecond - MicrosPerSecond
    /\ TransferDelay <= 100 * MicrosPerSecond + MicrosPerSecond

\* C10 amended: bandwidth 8 and 100 bytes add 800 / 8,000,000 seconds, which
\* is 100 microseconds (bandwidth 8 behaves as 1,000,000 bytes per second).
C10_HundredMicros ==
  C10_Case => TransferDelay = 100

C10_Witness ==
  C10_Case /\ last.cond.latency_ms > 0 /\ now - last.start > LinkSleep(last.cond.latency_ms)

\* The last call was simulate_transfer.
Transferred == Called /\ last.op = "simulate_transfer"

\* C11: every simulate_transfer(n) first passes simulate_network's gate: it
\* is dropped exactly when the loss draw falls under the rate, and then it
\* has suspended the caller for the link latency only; when the gate lets it
\* through and bandwidth_mbps > 0 the further suspension is exactly
\* (n * 8) / (bandwidth_mbps * 1_000_000) seconds (in whole microseconds), so
\* that under the same conditions and draw no larger n gives a shorter delay.
C11_GateThenBandwidthDelay ==
  Transferred =>
    LET c == last.cond
        n == last.bytes_count
        d == last.delay - LinkSleep(c.latency_ms)
    IN  /\ (last.outcome = "dropped") <=> LossDraw(c.packet_loss_rate, last.draw)
        /\ last.outcome = "dropped" => last.delay = c.latency_ms * MicrosPerMilli
        /\ (last.outcome = "ok" /\ c.bandwidth_mbps > 0) =>
              /\ d * (c.bandwidth_mbps * BitsPerMegabit)
                    <= (n * BitsPerByte) * MicrosPerSecond
              /\ (n * BitsPerByte) * MicrosPerSecond
                    < (d + 1) * (c.bandwidth_mbps * BitsPerMegabit)
        /\ \A m \in ByteCounts :
              m >= n => simulate_transfer(c, m, last.draw).delay >= last.delay

\* A transfer of 200 bytes at 8 Mbit/s over a 50 ms link that came through:
\* 50 ms of link latency and 200 microseconds of transfer time.
C11_Witness ==
  /\ Transferred
  /\ last.outcome = "ok"
  /\ last.cond.bandwidth_mbps = 8
  /\ last.cond.latency_ms = 50
  /\ last.bytes_count = 200
  /\ last.delay = 50200

\* ---------------------------------------- claims about the client operations

\* The operation in flight ended in the simulator's drop.
Dropped == ex.status = "raised" /\ ex.exc = "ConnectionError"

\* The operations that report a latency.
Timed(op) == \E i \in 1 .. Len(Program(op)) : Program(op)[i] = "stop"

\* The two operations that gate a download through the simulator.
ChatTurns == {"rest_chat_turn", "mcp_chat_turn"}

\* The drop was raised by the download's simulate_transfer, the step before
\* the end timestamp, which follows the operation's one HTTP request.
DroppedOnDownload ==
  /\ Dropped /\ ex.op \in ChatTurns
  /\ ex.pc = Len(Program(ex.op)) - 1
  /\ Program(ex.op)[ex.pc] = "simulate_transfer"
  /\ ex.http = 1

\* C3 as stated: when an exchange is dropped by the simulator, no HTTP request
\* of that exchange has been issued, in every client operation that uses the
\* simulator (both chat_turn methods among them).
C3_Original ==
  Dropped => ex.http = 0

\* C3 amended: a drop raised by a gate that precedes the request
\* (simulate_network in ping_async, echo_async, _send_request_async and
\* call_tool_async, the upload's simulate_transfer and the inner
\* simulate_network of the chat_turn methods) finds no HTTP request of the
\* exchange issued; only the download's simulate_transfer of the two chat_turn
\* methods drops after the exchange's single request.
C3_DropPrecedesRequestUnlessDownload ==
  Dropped => (ex.http = 0 \/ DroppedOnDownload)

\* McpClient.chat_turn dropped by its second gate, the simulate_network of
\* _send_request_async, after the upload passed: nothing was posted.
C3_Witness ==
  /\ Dropped /\ ex.op = "mcp_chat_turn"
  /\ ex.simcalls = 2 /\ ex.http = 0
  /\ sim.latency_ms > 0

\* C5: a timed operation takes its start timestamp before any simulated delay
\* and before the remote call, so the latency it reports is at least the delay
\* the simulator injected into the exchange.
C5_LatencyIncludesInjectedDelay ==
  (ex.status = "returned" /\ Timed(ex.op)) => ex.latency >= ex.injected

\* C6: when an exchange is dropped by the simulator, the timed operation still
\* reports the elapsed time of the exchange, with the failure told apart as a
\* simulated drop.
C6_DropReportsElapsed ==
  (Dropped /\ Timed(ex.op))
     => /\ ex.latency # NoLatency
        /\ ex.latency >= ex.injected

\* ------------------------------- claims about bench_network_instability

\* An exchange of the current iteration is awaited.
InFlight == IF lp.pc = "await" THEN 1 ELSE 0

\* C7: a dropped exchange neither aborts the scenario nor is retried: every
\* iteration begins exactly one exchange, a failed iteration is followed by the
\* next one, each protocol's record is written after exactly `attempts`
\* iterations, and the scenario ends with both records.
C7_DropNeitherAbortsNorRetries ==
  /\ lp.pc # "aborted"
  /\ lp.iter <= Attempts
  /\ lp.started = lp.iter + InFlight
  /\ lp.iter = lp.successes + lp.drops + lp.others
  /\ lp.pc = "recorded" => (lp.iter = Attempts /\ lp.started = Attempts)
  /\ lp.pc = "done" => Len(results) = Len(Protocols)

\* Both protocols done, the last with drops among its twenty iterations.
C7_Witness ==
  /\ lp.pc = "done" /\ Len(results) = 2
  /\ lp.iter = Attempts /\ lp.started = Attempts
  /\ lp.drops > 0 /\ lp.successes > 0

\* C8 as stated: the success_rate recorded for a protocol is
\* (attempts - drops) / attempts * 100, drops being the iterations whose
\* exchange the simulator dropped, whatever other failures occurred.
C8_Original ==
  lp.pc = "recorded"
     => results[Len(results)].success_rate
          = ((Attempts - lp.drops) * 100) \div Attempts

\* C8 amended: the success_rate recorded for a protocol is
\* (attempts - drops - others) / attempts * 100, others being the iterations
\* whose exchange raised anything but the simulated drop; it is
\* (attempts - drops) / attempts * 100 when no iteration failed otherwise.
C8_RateCountsEveryFailure ==
  lp.pc = "recorded"
     => /\ results[Len(results)].protocol = lp.protocol
        /\ results[Len(results)].success_rate
             = ((Attempts - lp.drops - lp.others) * 100) \div Attempts
        /\ lp.others = 0
             => results[Len(results)].success_rate
                  = ((Attempts - lp.drops) * 100) \div Attempts

\* A protocol recorded after drops, another failure and successes.
C8_Witness ==
  /\ lp.pc = "recorded"
  /\ lp.drops > 0 /\ lp.others > 0 /\ lp.successes > 0
  /\ results[Len(results)].success_rate = lp.successes * 5

\* ------------------------------------------- claims about the event streams

\* A reader bounded by a duration has opened its stream.
Bounded ==
  /\ st.fn \in {"listen_for_events", "subscribe_to_resource"}
  /\ st.start # NoTime

Finished == st.pc \in {"returned", "raised"}

\* No line read carried the terminal event.
NoTerminalRead == \A i \in 1 .. Len(st.lines) : st.lines[i] # "completed"

\* What "a small overhead" over the budget allows here: one second.
Overhead == MicrosPerSecond

\* C12: a consumption bounded by a duration D, on a stream that emits no
\* terminal event, ends by returning (never by raising) and within D plus a
\* small overhead of its start, whatever the arrival pattern, a stream that
\* falls silent included.
C12_DurationBoundsConsumption ==
  (Bounded /\ Finished /\ NoTerminalRead) =>
    /\ st.pc = "returned"
    /\ st.finish - st.start <= st.duration + Overhead

ListenReturned == st.fn = "listen_for_events" /\ st.pc = "returned"

\* The event objects of a sequence of lines, in order.
Objects(seq) == SelectSeq(seq, IsObject)

\* The i-th line read is the completed event.
CompletedAt(i) == i \in 1 .. Len(st.lines) /\ st.lines[i] = "completed"

\* C13 as stated: whenever the stream delivered a completed event,
\* listen_for_events returns exactly the events up to and including it, in
\* order, and has read nothing after it.
C13_Original ==
  (ListenReturned /\ \E i \in 1 .. Len(st.lines) : CompletedAt(i)) =>
    \E i \in 1 .. Len(st.lines) :
      /\ CompletedAt(i)
      /\ Len(st.lines) = i
      /\ Objects(st.events) = Objects(st.lines)

\* C13, amended: a completed event read before the duration budget is
\* exceeded ends listen_for_events at once: no line is read after it, and the
\* event objects returned are exactly the events read up to and including it,
\* in stream order, each once (the list returned holds every data line read
\* that JSON parses).  A line read after the budget ends the consumption
\* instead, and is not returned.
C13_TerminalWithinBudget ==
  st.fn = "listen_for_events" =>
    /\ \A i \in 1 .. Len(st.lines) :
         (CompletedAt(i) /\ st.times[i] - st.start <= st.duration) =>
           /\ st.pc = "returned"
           /\ st.ended = "completed"
           /\ Len(st.lines) = i
           /\ Objects(st.events) = Objects(st.lines)
           /\ st.events = SelectSeq(st.lines, Parses)
    /\ st.ended = "budget" =>
         /\ st.times[Len(st.times)] - st.start > st.duration
         /\ st.events = SelectSeq(SubSeq(st.lines, 1, Len(st.lines) - 1), Parses)

\* The server's stream of a task: the session-id line, a progress event, the
\* completed event; listen_for_events stops there.
C13_Witness ==
  /\ ListenReturned
  /\ st.ended = "completed"
  /\ st.lines = <<"other", "number", "progress", "completed">>
  /\ Objects(st.events) = <<"progress", "completed">>

\* C14: a data line that is no well-formed event never makes
\* listen_for_events raise and adds nothing to what it returns: every element
\* of the returned list is an event object.
C14_OnlyEventObjectsReturned ==
  st.fn = "listen_for_events" =>
    /\ st.pc # "raised"
    /\ \A i \in 1 .. Len(st.events) : IsObject(st.events[i])

\* C15: connect_sse returns the session id as soon as it has read the
\* session-establishment event (the stream's second line), setting
\* self.session_id.
C15_ConnectReturnsIdAtOnce ==
  (st.fn = "connect_sse" /\ Len(st.lines) >= 2) =>
    /\ st.pc = "returned"
    /\ st.result = "session_id"
    /\ st.session_id # "none"
    /\ Len(st.lines) = 2

SentFromQueue(k) == SelectSeq(k.sent, Queued)

\* C17: on every stream the session-establishment event is sent first and
\* only once, and the messages put on the session's queue are sent in the
\* order they were put, each at most once and none skipped: what was sent
\* from the queue is a prefix of what was put, and while the client is on the
\* stream what was sent followed by what still waits is exactly what was put.
C17_SessionFirstThenFifo ==
  \A c \in Conns :
    LET k == srv.conns[c]
        q == SentFromQueue(k)
    IN  /\ k.phase = "connecting" => k.sent = <<>>
        /\ k.phase # "connecting" =>
             /\ k.sent # <<>>
             /\ k.sent[1] = ConnectionEvent(k.sid)
             /\ \A i \in 2 .. Len(k.sent) : k.sent[i].kind # "connection"
        /\ Len(q) <= Len(k.put)
        /\ q = SubSeq(k.put, 1, Len(q))
        /\ k.phase = "open" => q \o k.queue = k.put

\* An open stream that has sent its connection event, a ticker update and two
\* of a task's notifications, with more of them waiting.
C17_Witness ==
  \E c \in Conns :
    LET k == srv.conns[c]
    IN  /\ k.phase = "open"
        /\ Len(SentFromQueue(k)) = 2
        /\ Len(k.queue) >= 2
        /\ \E i \in 1 .. Len(k.sent) : k.sent[i].kind = "update"

\* A cleaned-up session is nowhere in sessions.
EndedSessionsStayOut ==
  \A c \in Conns :
    srv.conns[c].cleaned => \A sid \in SessionIds : srv.sessions[sid] # c

\* One step of the connections' life: a new one starts as NewConn, an
\* existing one only moves connecting -> open -> one of the end phases and
\* then stays, none disappears, and the step that opens one puts its own,
\* empty queue in sessions under its id.
LifecycleStep ==
  /\ Len(srv'.conns) >= Len(srv.conns)
  /\ \A c \in 1 .. Len(srv'.conns) :
       IF c > Len(srv.conns) THEN srv'.conns[c] = NewConn
       ELSE LET a == srv.conns[c].phase
                b == srv'.conns[c].phase
            IN  /\ \/ a = b
                   \/ a = "connecting" /\ b = "open"
                   \/ a = "open" /\ b \in EndPhases
                /\ (a = "connecting" /\ b = "open") =>
                     /\ srv'.sessions[srv'.conns[c].sid] = c
                     /\ srv'.conns[c].queue = <<>>
                     /\ srv'.conns[c].put = <<>>
                /\ a \in EndPhases => srv'.conns[c].cleaned \/ ~srv.conns[c].cleaned

\* C18: a stream session only moves Connecting -> Open -> one of Draining,
\* TimedOut, Closed; an ended session is never re-entered or registered
\* again; every opening of the stream creates a new session with a queue of
\* its own, registered under its id.
C18_SessionLifecycle == [][LifecycleStep]_vars /\ []EndedSessionsStayOut

\* A first stream drained and cleaned up, and a second one opened after it:
\* a session of its own, under another id.
C18_Witness ==
  /\ Len(srv.conns) = 2
  /\ srv.conns[1].phase = "draining"
  /\ srv.conns[1].cleaned
  /\ srv.conns[2].phase = "open"
  /\ srv.conns[2].sid # srv.conns[1].sid
  /\ srv.sessions[srv.conns[2].sid] = 2
  /\ srv.sessions[srv.conns[1].sid] = NoConn

\* ------------------------------------------- claims about the chat sizes

\* The turns reported so far.
Turns == 1 .. Len(chat.bytes)

\* C19: across consecutive REST chat turns, the history growing by the user
\* message and the response after each, the bytes_sent reported is strictly
\* larger at every turn than at the turn before (whatever the lengths of the
\* messages, those that do not decrease included).
C19_RestBytesStrictlyIncrease ==
  chat.protocol = "REST" =>
    \A k \in Turns : k > 1 => chat.bytes[k] > chat.bytes[k - 1]

\* Three REST turns with messages of 9, 9 and 30 characters: 39, 150 and 284
\* bytes.
C19_Witness ==
  /\ chat.protocol = "REST"
  /\ chat.msgs = <<9, 9, 30>>
  /\ chat.bytes = <<39, 150, 284>>

\* C20 as stated: the bytes_sent McpClient.chat_turn reports depends on the
\* current message alone, not on how many turns went before.
C20_Original ==
  chat.protocol = "MCP" =>
    \A j, k \in Turns : chat.msgs[j] = chat.msgs[k] => chat.bytes[j] = chat.bytes[k]

\* C20, amended: the bytes_sent McpClient.chat_turn reports is the encoded
\* length of the current message plus a fixed envelope (the session id
\* included) plus the decimal digits of the turn counter: the size of earlier
\* turns does not enter it, and their number only through those digits.
C20_McpBytesFollowMessageAndDigits ==
  chat.protocol = "MCP" =>
    /\ \A k \in Turns :
         /\ chat.bytes[k] - chat.msgs[k] - Digits(k)
              = McpEnvelope + SessionIdLen + McpAllowance
         /\ chat.bytes[k] <= chat.msgs[k] + McpEnvelope + SessionIdLen
                               + McpAllowance + Digits(Iterations)
    /\ \A j, k \in Turns :
         (chat.msgs[j] = chat.msgs[k] /\ Digits(j) = Digits(k)) =>
           chat.bytes[j] = chat.bytes[k]

\* The scenario's ten turns of nine characters each: 168 bytes nine times,
\* then 169.
C20_Witness ==
  /\ chat.protocol = "MCP"
  /\ chat.pc = "done"
  /\ chat.msgs = [k \in 1 .. Iterations |-> 9]
  /\ chat.bytes[1] = 168
  /\ chat.bytes[9] = 168
  /\ chat.bytes[10] = 169

\* --------------------------------------- claims about the benchmark programs

\* C21: in run_all_benchmarks a failure of one scenario's remote calls never
\* lets an exception escape the scenario, so the batch is never left by an
\* exception: every later scenario runs and the results are written.
C21_NoExceptionEscapesScenario ==
  batch.program = "advanced" => batch.pc # "raised"

AllRecords == batch.results \o batch.all_results \o batch.csv

\* C22: every record a scenario of either program has appended carries the
\* four fields protocol, scenario, latency_ms and bytes_sent.
C22_RecordsCarryFourFields ==
  \A i \in 1 .. Len(AllRecords) : RequiredFields \subseteq AllRecords[i].fields

\* ------------------------------------------- claims about simulator calls

\* C23: a timed exchange invokes the network simulator at most twice, once
\* for the upload and once for the download, whichever client makes it.
C23_AtMostTwoSimulatorCalls == ex.simcalls <= 2

\* --------------------------------------------- claims about session ids

OpenStreams == {c \in Conns : srv.conns[c].phase = "open"}

\* C24: distinct open streams have distinct session ids, each open stream
\* owns the entry of its id in sessions, and no finally clause has found its
\* entry already deleted.
C24_DistinctStreamsDistinctIds ==
  /\ \A c, d \in OpenStreams : c # d => srv.conns[c].sid # srv.conns[d].sid
  /\ \A c \in OpenStreams : srv.sessions[srv.conns[c].sid] = c
  /\ srv.keyerrors = 0

\* ------------------------------------ claims about tasks and notifications

\* A completed notification can still reach the call: it is sent and unread,
\* or queued on the call's stream, or a task is running for that stream.
CompletionComing ==
  \/ \E k \in rt.read + 1 .. Len(srv.conns[rt.conn].sent) :
       srv.conns[rt.conn].sent[k].kind = "completed"
  \/ \E k \in 1 .. Len(srv.conns[rt.conn].queue) :
       srv.conns[rt.conn].queue[k].kind = "completed"
  \/ \E t \in 1 .. Len(srv.tasks) :
       \/ srv.tasks[t].pc = "running" /\ srv.tasks[t].conn = rt.conn
       \/ srv.tasks[t].pc = "created"
          /\ srv.sessions[srv.tasks[t].sid] = rt.conn

\* C25: once the stream is open and the generate_task request was answered,
\* whatever the answer, the call is on its way to return: while it waits for
\* progress events a completed notification is still coming to it.
C25_AnsweredRequestLeadsToReturn ==
  (rt.pc = "reading" /\ rt.task_started) => CompletionComing

\* C26: a task started on a live session puts exactly the running
\* notifications with progress 10, 20, ..., 100 in this order and then one
\* completed notification, nothing after it; the call that returns has
\* counted 11 progress events, the completed one last.
C26_TenRunningThenCompleted ==
  /\ \A t \in 1 .. Len(srv.tasks) :
       srv.tasks[t].conn # NoConn =>
         LET put == srv.conns[srv.tasks[t].conn].put
         IN  /\ Len(put) = srv.tasks[t].i
             /\ Len(put) <= 11
             /\ srv.tasks[t].pc = "done" => Len(put) = 11
             /\ \A k \in 1 .. Len(put) :
                  put[k] = IF k <= 10
                             THEN [kind |-> "running", value |-> 10 * k]
                             ELSE [kind |-> "completed", value |-> 100]
  /\ rt.pc = "returned" => rt.event_count = 11 /\ rt.seen = "completed"

C26_Witness ==
  /\ rt.pc = "returned"
  /\ rt.event_count = 11
  /\ \E t \in 1 .. Len(srv.tasks) :
       /\ srv.tasks[t].pc = "done"
       /\ srv.tasks[t].conn = rt.conn
       /\ Len(srv.conns[rt.conn].put) = 11

\* ------------------------------------------ claims about the REST tasks

\* C27: in the task store a task's status is "completed" only if its
\* progress is 100 and its result is set.
C27_CompletedOnlyAtFullProgress ==
  \A id \in DOMAIN rest.tasks :
    rest.tasks[id].status = "completed" =>
      /\ rest.tasks[id].progress = 100
      /\ rest.tasks[id].result # "None"

\* ------------------------------------------- claims about request ids

Sent == {k \in 1 .. Len(mc.calls) : mc.calls[k].id # 0}

\* C28: the ids one client sends are strictly increasing in the order the
\* requests are built, and no two requests carry the same id.
C28_IdsDistinctAndIncreasing ==
  /\ \A i, j \in 1 .. Len(mc.built) : i < j => mc.built[i] < mc.built[j]
  /\ \A k, l \in Sent : k # l => mc.calls[k].id # mc.calls[l].id

\* Three calls that all began before any of them built its request have
\* built their requests.
C28_Witness ==
  /\ Len(mc.built) = 3
  /\ \A k \in 1 .. Len(mc.calls) : mc.calls[k].predicted = 1

\* C29: the id call_tool_async sizes its payload with is the id of the
\* request it sends.
C29_SizedIdIsSentId ==
  \A k \in Sent : mc.calls[k].predicted = mc.calls[k].id

\* --------------------------------------- claims about the failed protocol

\* C30: when every attempt of a protocol failed, the scenario does not raise
\* and the protocol's record has success_rate 0 and latency_ms 0; in every
\* record a success rate of 0 goes with a latency of 0.
C30_AllFailedRecordsZero ==
  /\ lp.pc # "aborted"
  /\ (lp.pc = "recorded" /\ lp.successes = 0)
       => /\ results[Len(results)].protocol = lp.protocol
          /\ results[Len(results)].success_rate = 0
          /\ results[Len(results)].latency_ms = 0
  /\ \A i \in 1 .. Len(results) :
       results[i].success_rate = 0 => results[i].latency_ms = 0

\* The scenario is over and both protocols were recorded with every attempt
\* lost to a packet loss rate of 1.
C30_Witness ==
  /\ lp.pc = "done"
  /\ sim.packet_loss_rate = RandResolution
  /\ lp.successes = 0 /\ lp.drops = Attempts
  /\ Len(results) = 2
  /\ \A i \in 1 .. 2 :
       results[i].success_rate = 0 /\ results[i].latency_ms = 0

====
